---- MODULE Spec2Model ----
(***************************************************************************)
(* Model of scripts/create_issues.py: the batch issue creator.  main()     *)
(* runs the preflight check, loads docs/issues-data.json, asks for         *)
(* confirmation, invokes gh issue create once per task and prints a      *)
(* summary.  JSON objects are functions from key strings to values, so a   *)
(* missing key is a key outside DOMAIN (Python raises KeyError there).     *)
(* Strings that the code inspects (the prompt response) are sequences of   *)
(* characters; rendered text is a sequence of lines, each a tuple of the   *)
(* pieces the f-string joins.                                              *)
(***************************************************************************)
EXTENDS Integers, Sequences, FiniteSets, TLC

VARIABLES
    file,      \* what is on disk at docs/issues-data.json
    pc,        \* where main() is
    phases,    \* history: the values pc has taken, in order
    ghAuth,    \* <<>> until gh auth status has run, then <<its outcome>>
    data,      \* main's local data
    repo,      \* main's local repo
    tasks,     \* main's local tasks
    response,  \* <<>> until input() has returned, then <<the line read>>
    created,   \* main's local created
    failed,    \* main's local failed
    idx,       \* position of the for-task-in-tasks iterator
    calls,     \* the gh issue create invocations made so far, with return codes
    out,       \* what has been printed to standard output
    exitCode   \* <<>> while the process runs, then <<its exit status>>

vars == <<file, pc, phases, ghAuth, data, repo, tasks, response,
          created, failed, idx, calls, out, exitCode>>

\* ---- bounds -------------------------------------------------------------
MaxTasks == 3

\* ---- small helpers ------------------------------------------------------
Range(s) == {s[i] : i \in DOMAIN s}

SeqsUpTo(S, n) == UNION {[1..k -> S] : k \in 0..n}

RECURSIVE Flatten(_)
Flatten(ss) == IF ss = <<>> THEN <<>> ELSE Head(ss) \o Flatten(Tail(ss))

\* ---- the input file docs/issues-data.json -------------------------------
TaskFields == {"id", "title", "objective", "prerequisites",
               "acceptanceCriteria", "timeEstimate", "labels"}

TaskA == [id |-> "T1", title |-> "Add X", objective |-> "Do X",
          prerequisites |-> <<>>, acceptanceCriteria |-> <<"X works">>,
          timeEstimate |-> "1h", labels |-> <<"feature">>]

TaskB == [id |-> "T2", title |-> "Add Y", objective |-> "Do Y",
          prerequisites |-> <<"P1", "P2">>, acceptanceCriteria |-> <<"A", "B">>,
          timeEstimate |-> "2h", labels |-> <<"feature", "core">>]

TaskC == [id |-> "T3", title |-> "Add Z", objective |-> "Do Z",
          prerequisites |-> <<"P2">>, acceptanceCriteria |-> <<"Z works">>,
          timeEstimate |-> "3h", labels |-> <<>>]

\* a task record of the file that lacks the "objective" key
TaskNoObjective == [id |-> "T4", title |-> "Add W",
          prerequisites |-> <<>>, acceptanceCriteria |-> <<"W works">>,
          timeEstimate |-> "1h", labels |-> <<"feature">>]

TaskPool == {TaskA, TaskB, TaskC, TaskNoObjective}

TaskLists == SeqsUpTo(TaskPool, MaxTasks)

Projects == { [repository |-> "org/repo", milestone |-> "M1"],
              [repository |-> "org/repo"],
              [milestone |-> "M1"] }

\* what open()/json.load() meet on disk: no file, text that is not JSON,
\* or a JSON object with some of the keys the script later reads
Files == { [kind |-> "missing"], [kind |-> "notjson"] }
         \cup { [kind |-> "json", doc |-> [project |-> p, tasks |-> ts]] :
                    p \in Projects, ts \in TaskLists }
         \cup { [kind |-> "json", doc |-> [project |-> p]] : p \in Projects }
         \cup { [kind |-> "json", doc |-> [tasks |-> ts]] : ts \in SeqsUpTo(TaskPool, 1) }

EmptyObject == [k \in {} |-> ""]

\* ---- external client and terminal input ---------------------------------
ReturnCodes == {0, 1}

\* outcome of subprocess.run(['gh','auth','status']): gh absent from PATH
\* (FileNotFoundError) or a completed process with a return code
AuthOutcomes == { [found |-> FALSE, returncode |-> 0] }
                \cup { [found |-> TRUE, returncode |-> rc] : rc \in ReturnCodes }

\* lines the user may type at the prompt
Responses == { <<"y">>, <<"Y">>, <<"n">>, <<"N">>, <<>>,
               <<"y", "e", "s">>, <<"Y", "y">> }

LowerChar(c) == CASE c = "Y" -> "y"
                  [] c = "N" -> "n"
                  [] c = "E" -> "e"
                  [] c = "S" -> "s"
                  [] OTHER -> c

Lower(s) == [i \in DOMAIN s |-> LowerChar(s[i])]

\* the interpreter's exit status when main() returns, and sys.exit(1) or an
\* uncaught exception
ExitOk == 0
ExitError == 1

Init ==
    /\ file \in Files
    /\ pc = "Idle"
    /\ phases = <<"Idle">>
    /\ ghAuth = <<>>
    /\ data = EmptyObject
    /\ repo = ""
    /\ tasks = <<>>
    /\ response = <<>>
    /\ created = 0
    /\ failed = 0
    /\ idx = 1
    /\ calls = <<>>
    /\ out = << <<"banner">> >>
    /\ exitCode = <<>>

\* ---- check_gh_cli -------------------------------------------------------
\* a slip of lines 32-35: the return code of gh auth status is not looked at
check_gh_cli_ignoring_returncode(r) == r.found

\* the boolean check_gh_cli returns for an outcome of gh auth status
check_gh_cli(r) ==
    IF ~r.found THEN FALSE
    ELSE IF r.returncode # 0 THEN FALSE
    ELSE TRUE

\* what check_gh_cli prints for that outcome
check_gh_cli_prints(r) ==
    IF ~r.found THEN << <<"gh is not installed">>, <<"Install it from">> >>
    ELSE IF r.returncode # 0 THEN << <<"gh is not authenticated">> >>
    ELSE <<>>

\* ---- create_issue_body / create_issue -----------------------------------
\* a slip of lines 48-52: the else branch is lost, an empty list renders nothing
PrerequisiteLinesNoElse(prereqs) ==
    [i \in DOMAIN prereqs |-> <<"- ", prereqs[i]>>]

\* lines 48-52: one bullet per prerequisite, or the single bullet None
PrerequisiteLines(prereqs) ==
    IF prereqs # <<>>
    THEN [i \in DOMAIN prereqs |-> <<"- ", prereqs[i]>>]
    ELSE << <<"- ", "None">> >>

create_issue_body(task) ==
    << <<"## Objective">>, <<task.objective>>, <<>>, <<"## Prerequisites">> >>
    \o PrerequisiteLines(task.prerequisites)
    \o << <<>>, <<"## Acceptance Criteria">> >>
    \o [i \in DOMAIN task.acceptanceCriteria |-> <<"- [ ] ", task.acceptanceCriteria[i]>>]
    \o << <<>>, <<"## Time Estimate">>, <<task.timeEstimate>>, <<>>,
          <<"## Resources">>,
          <<"- ", "Implementation Plan: docs/SNES9XWASM_IMPLEMENTATION_PLAN.md">>,
          <<"- ", "Task Breakdown: docs/TASK_BREAKDOWN.md">>, <<>>,
          <<"## Definition of Done">>,
          <<"- [ ] ", "Code changes committed and reviewed">>,
          <<"- [ ] ", "All acceptance criteria met">>,
          <<"- [ ] ", "Tests written and passing">>,
          <<"- [ ] ", "Documentation updated">> >>

IssueTitle(task) == <<"[", task.id, "] ", task.title>>

\* the keys create_issue and create_issue_body subscript on a task
TaskKeysRead(task) == TaskFields

\* the argument vector of one gh issue create call
IssueCommand(r, task) ==
    [ prog |-> <<"gh", "issue", "create">>,
      repo |-> r,
      title |-> IssueTitle(task),
      body |-> create_issue_body(task),
      assignee |-> "@me",
      labels |-> Flatten([i \in DOMAIN task.labels |-> <<"--label", task.labels[i]>>]) ]

\* a slip of line 98: check=True left out, so a non-zero exit raises nothing
SucceededUnchecked(rc) == TRUE

\* subprocess.run(..., check=True): returns for a zero return code, raises
\* CalledProcessError (caught, create_issue returns False) otherwise
Succeeded(rc) == rc = 0

\* a slip of lines 133-136: the else branch does not count the failure
TallyNoElse(ok, c, f) == IF ok THEN <<c + 1, f>> ELSE <<c, f>>

\* the loop body's bookkeeping: <<created, failed>> after one create_issue
Tally(ok, c, f) == IF ok THEN <<c + 1, f>> ELSE <<c, f + 1>>

\* ---- main ---------------------------------------------------------------
\* a slip of line 124: only an explicit no cancels
DeclinedOnlyOnNo(resp) == Lower(resp) = <<"n">>

\* line 124
Declined(resp) == Lower(resp) # <<"y">>

HasGuidance(c) == c > 0

Goto(p) == /\ pc' = p
           /\ phases' = Append(phases, p)

\* an exception nothing catches: traceback, interpreter exits with status 1
Raise == /\ Goto("Crashed")
         /\ exitCode' = <<ExitError>>

\* lines 109-111: the preflight check and sys.exit(1)
CheckGhCli ==
    /\ pc = "Idle"
    /\ \E r \in AuthOutcomes :
        /\ ghAuth' = <<r>>
        /\ out' = out \o check_gh_cli_prints(r)
        /\ IF check_gh_cli(r)
           THEN Goto("PreflightPassed") /\ UNCHANGED exitCode
           ELSE Goto("Aborted") /\ exitCode' = <<ExitError>>
    /\ UNCHANGED <<file, data, repo, tasks, response, created, failed, idx, calls>>

\* lines 113-120 with load_issue_data (19-23)
LoadData ==
    /\ pc = "PreflightPassed"
    /\ IF file.kind # "json"
       THEN \* open() or json.load() raises
            /\ Raise
            /\ out' = Append(out, <<"Loading issue data...">>)
            /\ UNCHANGED <<data, repo, tasks>>
       ELSE IF "project" \notin DOMAIN file.doc
               \/ "repository" \notin DOMAIN file.doc.project
               \/ "tasks" \notin DOMAIN file.doc
       THEN \* KeyError at line 116 or 117
            /\ Raise
            /\ out' = Append(out, <<"Loading issue data...">>)
            /\ data' = file.doc
            /\ UNCHANGED <<repo, tasks>>
       ELSE /\ data' = file.doc
            /\ repo' = file.doc.project.repository
            /\ tasks' = file.doc.tasks
            /\ out' = out \o << <<"Loading issue data...">>,
                                <<"Repository:", file.doc.project.repository>>,
                                <<"Total tasks:", Len(file.doc.tasks)>> >>
            /\ Goto("Loaded")
            /\ UNCHANGED exitCode
    /\ UNCHANGED <<file, ghAuth, response, created, failed, idx, calls>>

\* lines 122-126: the confirmation prompt
Confirm ==
    /\ pc = "Loaded"
    /\ \/ \E r \in Responses :
            /\ response' = <<r>>
            /\ IF Declined(r)
               THEN /\ out' = out \o << <<"Create all issues? (y/N): ">>, <<"Cancelled.">> >>
                    /\ Goto("Aborted")
                    /\ exitCode' = <<ExitOk>>
               ELSE /\ out' = Append(out, <<"Create all issues? (y/N): ">>)
                    /\ Goto("Confirmed")
                    /\ UNCHANGED exitCode
       \/ \* standard input is at end of file: input() raises EOFError
          /\ out' = Append(out, <<"Create all issues? (y/N): ">>)
          /\ Raise
          /\ UNCHANGED response
    /\ UNCHANGED <<file, ghAuth, data, repo, tasks, created, failed, idx, calls>>

\* lines 128-132: the counters are initialised and the loop is entered
StartBatch ==
    /\ pc = "Confirmed"
    /\ created' = 0
    /\ failed' = 0
    /\ idx' = 1
    /\ Goto("Running")
    /\ UNCHANGED <<file, ghAuth, data, repo, tasks, response, calls, out, exitCode>>

\* lines 132-136 with create_issue (76-103): one iteration of the loop
CreateIssue ==
    /\ pc = "Running"
    /\ idx <= Len(tasks)
    /\ LET task == tasks[idx] IN
       IF ~(TaskKeysRead(task) \subseteq DOMAIN task)
       THEN \* KeyError at lines 78-80, before anything is printed or run
            /\ Raise
            /\ UNCHANGED <<created, failed, idx, calls, out>>
       ELSE \E rc \in ReturnCodes :
            /\ calls' = Append(calls, [cmd |-> IssueCommand(repo, task), returncode |-> rc])
            /\ created' = Tally(Succeeded(rc), created, failed)[1]
            /\ failed' = Tally(Succeeded(rc), created, failed)[2]
            /\ out' = out \o << <<"Creating issue:", IssueTitle(task)>>,
                                IF Succeeded(rc) THEN <<"Created", task.id>>
                                                 ELSE <<"Failed to create", task.id>> >>
            /\ idx' = idx + 1
            /\ UNCHANGED <<pc, phases, exitCode>>
    /\ UNCHANGED <<file, ghAuth, data, repo, tasks, response>>

\* lines 138-150: the summary, the follow-up guidance, and main returning
Summary ==
    /\ pc = "Running"
    /\ idx > Len(tasks)
    /\ LET summary == << <<"Summary:">>, <<"Created:", created>>,
                         <<"Failed:", failed>>, <<"Total:", Len(tasks)>> >>
           guide1 == << <<"View issues:", repo>>, <<"Next steps:">>,
                        <<"1. Create project board">> >>
       IN
       IF ~HasGuidance(created)
       THEN /\ out' = out \o summary
            /\ Goto("Done")
            /\ exitCode' = <<ExitOk>>
       ELSE IF "milestone" \notin DOMAIN data.project
       THEN \* KeyError at line 148
            /\ out' = out \o summary \o guide1
            /\ Raise
       ELSE /\ out' = out \o summary \o guide1
                      \o << <<"2. Set up milestone:", data.project.milestone>>,
                            <<"3. Organize issues into sprints">>,
                            <<"4. Begin Sprint 1!">> >>
            /\ Goto("Done")
            /\ exitCode' = <<ExitOk>>
    /\ UNCHANGED <<file, ghAuth, data, repo, tasks, response, created, failed, idx, calls>>

Next == \/ CheckGhCli
        \/ LoadData
        \/ Confirm
        \/ StartBatch
        \/ CreateIssue
        \/ Summary

Spec == Init /\ [][Next]_vars

\* ======================= observations used by the properties ==============
Terminated == exitCode # <<>>

Printed(tag) == \E i \in DOMAIN out : out[i][1] = tag

Reported(tag) == LET i == CHOOSE j \in DOMAIN out : out[j][1] = tag IN out[i][2]

Prompted == Printed("Create all issues? (y/N): ")

SummaryPrinted == Printed("Summary:")

PreflightRan == ghAuth # <<>>

\* gh is not installed, or gh auth status exited non-zero
PreflightFailed == /\ PreflightRan
                   /\ (~ghAuth[1].found \/ ghAuth[1].returncode # 0)

Affirmative == { <<"y">>, <<"Y">> }

UserConfirmed == response # <<>> /\ response[1] \in Affirmative

UserDeclined == response # <<>> /\ response[1] \notin Affirmative

ZeroExits == {i \in DOMAIN calls : calls[i].returncode = 0}

NonZeroExits == {i \in DOMAIN calls : calls[i].returncode # 0}

\* the input file is missing, unreadable, or lacks a required field
InputDefective ==
    \/ file.kind # "json"
    \/ "project" \notin DOMAIN file.doc
    \/ ~({"repository", "milestone"} \subseteq DOMAIN file.doc.project)
    \/ "tasks" \notin DOMAIN file.doc
    \/ \E i \in DOMAIN file.doc.tasks : ~(TaskFields \subseteq DOMAIN file.doc.tasks[i])

\* the lines of a rendered body between the Prerequisites header and the
\* blank line that ends the section
PrereqSection(body) ==
    LET h == CHOOSE i \in DOMAIN body : body[i] = <<"## Prerequisites">>
        e == CHOOSE i \in (h + 1)..Len(body) :
                 /\ body[i] = <<>>
                 /\ \A j \in (h + 1)..(i - 1) : body[j] # <<>>
    IN SubSeq(body, h + 1, e - 1)

IsBullet(line) == Len(line) >= 1 /\ line[1] = "- "

Bullets(lines) == SelectSeq(lines, IsBullet)

Edges(seq) == {<<seq[i], seq[i + 1]>> : i \in 1..(Len(seq) - 1)}

\* ======================= C1 ===============================================
\* C1 (as stated): in a confirmed run, once the process has ended, the
\* gh issue create invocations are exactly the loaded tasks t1..tn, one per
\* task and in source order, whatever the earlier return codes were.
C1_EveryTaskAttemptedInOrder ==
    (UserConfirmed /\ Terminated) =>
        /\ Len(calls) = Len(tasks)
        /\ \A i \in DOMAIN calls : calls[i].cmd.title = IssueTitle(tasks[i])

\* ======================= C2 ===============================================
\* C2: once the summary is printed, the reported created count is the number
\* of invocations that exited zero, the reported failed count the number that
\* exited non-zero, total the number of loaded tasks, and created + failed =
\* total.
C2_SummaryCounts ==
    SummaryPrinted =>
        /\ Reported("Created:") = Cardinality(ZeroExits)
        /\ Reported("Failed:") = Cardinality(NonZeroExits)
        /\ Reported("Total:") = Len(tasks)
        /\ Reported("Created:") + Reported("Failed:") = Reported("Total:")

\* task 2 of 3 failed: the summary reads created=2, failed=1, total=3
C2_Witness ==
    /\ SummaryPrinted
    /\ Len(calls) = 3
    /\ NonZeroExits = {2}
    /\ Reported("Created:") = 2
    /\ Reported("Failed:") = 1
    /\ Reported("Total:") = 3

\* ======================= C3 ===============================================
\* C3: when the line read at the prompt is anything other than y or Y, no
\* gh issue create invocation is made, Cancelled. is printed, and the process
\* ends normally (exit status 0, no later phase).
C3_DeclineCancels ==
    UserDeclined =>
        /\ calls = <<>>
        /\ Printed("Cancelled.")
        /\ pc = "Aborted"
        /\ exitCode = <<ExitOk>>

C3_Witness ==
    /\ response = << <<"y", "e", "s">> >>
    /\ Printed("Cancelled.")
    /\ exitCode = <<ExitOk>>
    /\ Len(tasks) > 0

\* ======================= C4 ===============================================
\* C4: when the preflight check fails (gh not installed, or gh auth status
\* exits non-zero), no gh issue create invocation is made, the confirmation
\* prompt is never shown, and the process exits with a non-zero status.
C4_PreflightFailureAborts ==
    PreflightFailed =>
        /\ calls = <<>>
        /\ ~Prompted
        /\ response = <<>>
        /\ Terminated
        /\ exitCode # <<ExitOk>>

C4_Witness ==
    /\ PreflightRan
    /\ ghAuth[1].found
    /\ ghAuth[1].returncode # 0
    /\ exitCode = <<ExitError>>
    /\ file.kind = "json"

\* ======================= C5 ===============================================
\* C5 (as stated): when the input file is missing, unreadable or lacks a
\* required field of the project metadata or of a task record, no
\* gh issue create invocation is ever made.
C5_DefectiveInputCreatesNothing ==
    InputDefective => calls = <<>>

\* ======================= C6 ===============================================
\* C6 (as stated): the exit status is 1 when the preflight check fails and 0
\* on every other terminating path.
C6_ExitOneOnlyOnPreflightFailure ==
    Terminated =>
        /\ exitCode \in {<<ExitOk>>, <<ExitError>>}
        /\ (exitCode = <<ExitError>> <=> PreflightFailed)

\* C6 (amended): the exit status is 1 when the preflight check fails or an
\* uncaught exception ends the run, and 0 on the other terminating paths: the
\* user-cancelled path and the path where the summary completes, whatever the
\* number of failed creations.
C6_ExitStatus ==
    Terminated =>
        /\ exitCode \in {<<ExitOk>>, <<ExitError>>}
        /\ (exitCode = <<ExitError>> <=> (PreflightFailed \/ pc = "Crashed"))
        /\ (exitCode = <<ExitOk>> <=> (UserDeclined \/ pc = "Done"))
        /\ (pc = "Done" => /\ SummaryPrinted
                           /\ Reported("Failed:") = failed
                           /\ failed \in 0..Len(tasks))

\* every creation failed and the process still exits 0
C6_Witness ==
    /\ pc = "Done"
    /\ exitCode = <<ExitOk>>
    /\ failed = Len(tasks)
    /\ failed >= 2

\* ======================= C7 ===============================================
\* the phase order of the specification's state machine
SpecEdges == { <<"Idle", "Loaded">>, <<"Loaded", "PreflightPassed">>,
               <<"Loaded", "Aborted">>, <<"PreflightPassed", "Confirmed">>,
               <<"PreflightPassed", "Aborted">>, <<"Confirmed", "Running">>,
               <<"Running", "Done">> }

\* the phase order main() follows; Crashed is the end by uncaught exception
CodeEdges == { <<"Idle", "PreflightPassed">>, <<"Idle", "Aborted">>,
               <<"PreflightPassed", "Loaded">>, <<"PreflightPassed", "Crashed">>,
               <<"Loaded", "Confirmed">>, <<"Loaded", "Aborted">>,
               <<"Loaded", "Crashed">>, <<"Confirmed", "Running">>,
               <<"Running", "Done">>, <<"Running", "Crashed">> }

RunningEntries == Cardinality({i \in DOMAIN phases : phases[i] = "Running"})

\* C7 (as stated): the phases occur only in the order Idle, Loaded,
\* PreflightPassed, Confirmed, Running, Done, with Aborted entered only from
\* Loaded or PreflightPassed, and Running entered at most once.
C7_SpecPhaseOrder ==
    /\ Edges(phases) \subseteq SpecEdges
    /\ RunningEntries <= 1

\* C7 (amended): the phases occur only in the order Idle, PreflightPassed,
\* Loaded, Confirmed, Running, Done: the preflight check runs before the task
\* data is loaded, the prompt is shown only after preflight has passed and the
\* data is loaded, Aborted is entered only from Idle (preflight failure) or
\* from Loaded (user declined), an uncaught exception may end the run from
\* PreflightPassed, Loaded or Running, and Running is entered at most once.
C7_CodePhaseOrder ==
    /\ Edges(phases) \subseteq CodeEdges
    /\ RunningEntries <= 1
    /\ (<<"Idle", "Aborted">> \in Edges(phases) => PreflightFailed)
    /\ (<<"Loaded", "Aborted">> \in Edges(phases) => UserDeclined)
    /\ (Printed("Loading issue data...") => PreflightRan /\ ~PreflightFailed)
    /\ (Prompted => /\ PreflightRan /\ ~PreflightFailed
                    /\ Printed("Total tasks:")
                    /\ <<"PreflightPassed", "Loaded">> \in Edges(phases))

C7_Witness ==
    phases = <<"Idle", "PreflightPassed", "Loaded", "Confirmed", "Running", "Done">>

\* ======================= C8 ===============================================
\* C8: in the body passed to every gh issue create invocation, the
\* Prerequisites section holds exactly one bullet, reading None, when the
\* task's prerequisite list is empty, and exactly k bullets, one per
\* prerequisite and in source order, when the list has length k >= 1.
C8_PrerequisiteBullets ==
    \A i \in DOMAIN calls :
        LET prereqs == tasks[i].prerequisites
            section == PrereqSection(calls[i].cmd.body)
        IN /\ Bullets(section) = section
           /\ IF prereqs = <<>>
              THEN section = << <<"- ", "None">> >>
              ELSE /\ Len(section) = Len(prereqs)
                   /\ \A j \in DOMAIN prereqs : section[j] = <<"- ", prereqs[j]>>

\* one run renders an empty list and a list of two prerequisites
C8_Witness ==
    /\ \E i \in DOMAIN calls : tasks[i].prerequisites = <<>>
    /\ \E i \in DOMAIN calls : Len(tasks[i].prerequisites) = 2

\* ======================= C9 ===============================================
GuidancePrinted ==
    /\ Printed("View issues:")
    /\ Printed("Next steps:")
    /\ Printed("2. Set up milestone:")

\* C9 (as stated): after all tasks have been attempted and the summary is
\* printed, the follow-up guidance (issue-list link and the next steps naming
\* the milestone) is printed if and only if at least one issue was created.
C9_GuidanceIffCreated ==
    (SummaryPrinted /\ Terminated) => (GuidancePrinted <=> ZeroExits # {})

\* ======================= C10 ==============================================
TallyInvariant ==
    /\ created >= 0
    /\ failed >= 0
    /\ created + failed = Len(calls)
    /\ Len(calls) <= Len(tasks)
    /\ created = Cardinality(ZeroExits)

TallyStep ==
    /\ (pc # "Running" /\ pc' = "Running" => created' = 0 /\ failed' = 0 /\ calls' = <<>>)
    /\ created' >= created
    /\ failed' >= failed
    /\ Len(calls') \in {Len(calls), Len(calls) + 1}
    /\ (Len(calls') = Len(calls) => created' = created /\ failed' = failed)
    /\ (Len(calls') = Len(calls) + 1 =>
            \/ created' = created + 1 /\ failed' = failed
            \/ created' = created /\ failed' = failed + 1)

\* C10: created + failed always equals the number of completed invocations
\* and never exceeds the number of loaded tasks; both counters start at 0,
\* never decrease, and each completed invocation adds exactly 1 to exactly one
\* of them.
C10_TallyLoopInvariant ==
    /\ (created = 0 /\ failed = 0)
    /\ []TallyInvariant
    /\ [][TallyStep]_vars

C10_Witness ==
    /\ created = 1
    /\ failed = 2
    /\ Len(calls) = 3
    /\ pc = "Running"

====
